---- MODULE Spec2Model ----
(***************************************************************************)
(* Model of src/src/App.js: the App component that submits image jobs,     *)
(* receives their results over one WebSocket per job (setupWebSocket) and  *)
(* polls the status endpoint for jobs that stay loading too long           *)
(* (checkStaleRequests).                                                   *)
(*                                                                         *)
(* JavaScript runs each callback to completion, so every handler is one    *)
(* action; the awaits inside checkStaleRequests and the already_sent       *)
(* fetch are the points where other callbacks interleave.  Time is in      *)
(* milliseconds, is measured from the present instant (Date.now() is the   *)
(* origin, stored timestamps move back as time passes) and advances in     *)
(* steps of the poll interval.                                             *)
(***************************************************************************)
EXTENDS Integers, Sequences, FiniteSets, TLC

(* ------------------------------ bounds -------------------------------- *)
MaxJobs == 2
MaxRuns == 1

(* ------------------------- program constants -------------------------- *)
StaleThreshold == 12000
PollInterval == 3000
NormalClosure == 1000

PollDefaultMessage == "Error generating image"
PushDefaultMessage == "An error occurred during image generation"

(* --------------------------- input domains ---------------------------- *)
JobIds == 1..MaxJobs
Urls == {"http://x/y.png"}
Msgs == {"", "OOM"}

\* Date.now(): the present instant is the origin of the time axis
now == 0

VARIABLES
    images,            \* useState([]) : the result list
    loadingImages,     \* useState({}) : request id -> start timestamp
    connectionStatus,  \* useState("disconnected")
    nextTick,          \* time at which the current setInterval fires next
    polls,             \* running checkStaleRequests calls: ids still to query
    requested,         \* number of request ids the server has handed out
    readyState,        \* ws.readyState of each job's socket ("none" before it)
    closeCode,         \* the code each socket's ws.close was called with (0: none)
    closeTimers,       \* pending setTimeout close callbacks of each socket
    sent,              \* control messages (JSON) each socket has sent
    statusFetch,       \* the already_sent status fetch of each job: "none",
                       \* "pending", or "applied" once its image was entered
    server,            \* the server's record of each job
    alertOpen,         \* the alert() of a failed submission is on the screen
    parseFailed        \* the catch block of ws.onmessage has run (line 203)

vars == <<images, loadingImages, connectionStatus, nextTick, polls,
          requested, readyState, closeCode, closeTimers, sent, statusFetch,
          server, alertOpen, parseFailed>>

(* ----------------------------- the store ------------------------------ *)
ImageUrl(id, u) == [id |-> id, error |-> FALSE, url |-> u, message |-> ""]
ImageError(id, m) == [id |-> id, error |-> TRUE, url |-> "", message |-> m]

\* a || b on strings: the empty (or missing) string is falsy
OrElse(a, b) == IF a = "" THEN b ELSE a

\* mutant of Upsert: the filter is forgotten
UpsertKeepsOld(prev, e) == Append(prev, e)

\* [...prev.filter(img => img.id !== e.id), e]
Upsert(prev, e) == Append(SelectSeq(prev, LAMBDA img : img.id # e.id), e)

\* { ...prev } with delete newState[id]
DeleteKey(prev, id) == [k \in (DOMAIN prev) \ {id} |-> prev[k]]

\* { ...prev, [id]: t }
SetKey(prev, id, t) == [k \in (DOMAIN prev) \cup {id} |-> IF k = id THEN t ELSE prev[k]]

EntriesOf(id) == {i \in 1..Len(images) : images[i].id = id}
HasResult(id) == EntriesOf(id) # {}
IsLoading(id) == id \in DOMAIN loadingImages
ResultOf(id) == images[CHOOSE i \in EntriesOf(id) : TRUE]

(* ------------------------- the status endpoint ------------------------ *)
Processing == [status |-> "processing", result |-> "", error |-> ""]
Completed(u) == [status |-> "completed", result |-> u, error |-> ""]
Errored(m) == [status |-> "error", result |-> "", error |-> m]
ServerResults == {Completed(u) : u \in Urls} \cup {Errored(m) : m \in Msgs}

\* what fetch(/status/...) can deliver: an OK response with a body, a non-OK
\* response, or a rejected fetch
Answer(ok, data) == [reached |-> TRUE, ok |-> ok, data |-> data]
Unreachable == [reached |-> FALSE, ok |-> FALSE, data |-> Processing]
Unrecognised == {[status |-> "queued", result |-> "", error |-> ""],
                 [status |-> "completed", result |-> "", error |-> ""]}
Failed == {Answer(FALSE, Processing), Unreachable}
\* a non-OK response whose body nevertheless holds a result
NotOk == {Answer(FALSE, d) : d \in ServerResults}

\* any answer at all
StatusAnswers ==
    {Answer(TRUE, d) : d \in {Processing} \cup ServerResults \cup Unrecognised}
      \cup Failed \cup NotOk

\* the answers of an endpoint that reports the job's record when it answers
RecordedAnswers(id) ==
    {Answer(TRUE, server[id])} \cup {Answer(TRUE, d) : d \in Unrecognised}
      \cup Failed


(* ------------------------------ helpers ------------------------------- *)
Max(a, b) == IF a >= b THEN a ELSE b

\* the effect of line 10 depends on loadingImages: every setLoadingImages
\* call produces a new object, so the effect is cleaned up (clearInterval)
\* and run again (setInterval), and the next tick is a full interval away
RestartInterval == now + PollInterval

\* mutant of StaleRequestIds: >= for >
StaleAtThreshold(loading, t) ==
    SelectSeq([i \in 1..MaxJobs |-> i],
              LAMBDA id : id \in DOMAIN loading /\ (t - loading[id]) >= StaleThreshold)

\* mutant of StaleRequestIds: find for filter, only the first stale id
StaleFirstOnly(loading, t) ==
    LET all == SelectSeq([i \in 1..MaxJobs |-> i],
                         LAMBDA id : id \in DOMAIN loading
                                       /\ (t - loading[id]) > StaleThreshold)
    IN  IF all = << >> THEN all ELSE <<Head(all)>>

\* mutant of StaleRequestIds: the age is taken the wrong way round
StaleNever(loading, t) ==
    SelectSeq([i \in 1..MaxJobs |-> i],
              LAMBDA id : id \in DOMAIN loading /\ (loading[id] - t) > StaleThreshold)

\* Object.entries(loadingImages).filter(...).map(...): the ids in key order
\* whose age at time t exceeds the threshold
StaleRequestIds(loading, t) ==
    SelectSeq([i \in 1..MaxJobs |-> i],
              LAMBDA id : id \in DOMAIN loading /\ (t - loading[id]) > StaleThreshold)

\* mutant of PollImages: every answer that is not completed counts as failed
PollImagesElseError(prev, id, ans) ==
    IF ans.reached /\ ans.ok /\ ans.data.status = "completed" /\ ans.data.result # ""
      THEN Upsert(prev, ImageUrl(id, ans.data.result))
    ELSE IF ans.reached /\ ans.ok
      THEN Upsert(prev, ImageError(id, OrElse(ans.data.error, PollDefaultMessage)))
    ELSE prev

\* mutant of PollImages: data.error is dropped
PollImagesNoMessage(prev, id, ans) ==
    IF ans.reached /\ ans.ok /\ ans.data.status = "completed" /\ ans.data.result # ""
      THEN Upsert(prev, ImageUrl(id, ans.data.result))
    ELSE IF ans.reached /\ ans.ok /\ ans.data.status = "error"
      THEN Upsert(prev, ImageError(id, PollDefaultMessage))
    ELSE prev

\* mutant of PollImages: response.ok is not looked at
PollImagesIgnoresOk(prev, id, ans) ==
    IF ans.reached /\ ans.data.status = "completed" /\ ans.data.result # ""
      THEN Upsert(prev, ImageUrl(id, ans.data.result))
    ELSE IF ans.reached /\ ans.data.status = "error"
      THEN Upsert(prev, ImageError(id, OrElse(ans.data.error, PollDefaultMessage)))
    ELSE prev

\* the store after one iteration of the polling loop has read its answer
PollImages(prev, id, ans) ==
    IF ans.reached /\ ans.ok /\ ans.data.status = "completed" /\ ans.data.result # ""
      THEN Upsert(prev, ImageUrl(id, ans.data.result))
    ELSE IF ans.reached /\ ans.ok /\ ans.data.status = "error"
      THEN Upsert(prev, ImageError(id, OrElse(ans.data.error, PollDefaultMessage)))
    ELSE prev

\* mutant of PollResolves: the error branch leaves the loading entry
PollResolvesCompletedOnly(ans) ==
    /\ ans.reached
    /\ ans.ok
    /\ ans.data.status = "completed" /\ ans.data.result # ""

\* the branches of the polling loop that call setLoadingImages
PollResolves(ans) ==
    /\ ans.reached
    /\ ans.ok
    /\ \/ ans.data.status = "completed" /\ ans.data.result # ""
       \/ ans.data.status = "error"

\* the already_sent branch reads the body without looking at response.ok and
\* handles a completed answer only
StatusResolves(ans) ==
    /\ ans.reached
    /\ ans.data.status = "completed"
    /\ ans.data.result # ""

(* ------------------------------- Init --------------------------------- *)
Init ==
    /\ images = << >>
    /\ loadingImages = << >>
    /\ connectionStatus = "disconnected"
    /\ nextTick = PollInterval
    /\ polls = << >>
    /\ requested = 0
    /\ readyState = [id \in JobIds |-> "none"]
    /\ closeCode = [id \in JobIds |-> 0]
    /\ closeTimers = [id \in JobIds |-> {}]
    /\ sent = [id \in JobIds |-> {}]
    /\ statusFetch = [id \in JobIds |-> "none"]
    /\ server = [id \in JobIds |-> Processing]
    /\ alertOpen = FALSE
    /\ parseFailed = FALSE

(* --------------------------- job submission --------------------------- *)
\* requestImageGeneration, the POST answered OK: the server hands out the
\* next request id, the job is entered as loading and its socket is created
requestImageGeneration ==
    /\ ~alertOpen
    /\ requested < MaxJobs
    /\ LET id == requested + 1 IN
         /\ requested' = id
         /\ loadingImages' = SetKey(loadingImages, id, now)
         /\ nextTick' = RestartInterval
         /\ readyState' = [readyState EXCEPT ![id] = "CONNECTING"]
    /\ UNCHANGED <<alertOpen, parseFailed, connectionStatus, images, polls,
                   closeCode,
                   closeTimers, sent, statusFetch, server>>

\* mutant of requestImageGenerationFails: the loading entry is written
\* before the response is looked at
requestImageGenerationFailsLate ==
    /\ ~alertOpen
    /\ requested < MaxJobs
    /\ requested' = requested + 1
    /\ loadingImages' = SetKey(loadingImages, requested + 1, now)
    /\ alertOpen' = TRUE
    /\ UNCHANGED <<parseFailed, connectionStatus, images, nextTick, polls,
                   readyState,
                   closeCode, closeTimers, sent, statusFetch, server>>

\* requestImageGeneration, the POST rejected (fetch throws) or answered
\* not OK (line 232 throws): the catch block calls alert(), which keeps the
\* event loop blocked until the user dismisses it
requestImageGenerationFails ==
    /\ ~alertOpen
    /\ alertOpen' = TRUE
    /\ UNCHANGED <<parseFailed, connectionStatus, images, loadingImages,
                   nextTick, polls,
                   requested, readyState, closeCode, closeTimers, sent,
                   statusFetch, server>>

\* the user dismisses the alert: alert() returns and the handler ends
alertDismissed ==
    /\ alertOpen
    /\ alertOpen' = FALSE
    /\ UNCHANGED <<parseFailed, connectionStatus, images, loadingImages,
                   nextTick, polls,
                   requested, readyState, closeCode, closeTimers, sent,
                   statusFetch, server>>

\* the server finishes a job: its record is written once
serverFinish(id, res) ==
    /\ ~alertOpen
    /\ id <= requested
    /\ server[id] = Processing
    /\ server' = [server EXCEPT ![id] = res]
    /\ UNCHANGED <<alertOpen, parseFailed, connectionStatus, images,
                   loadingImages, nextTick,
                   polls, requested, readyState, closeCode, closeTimers,
                   sent, statusFetch>>

(* ----------------------------- the socket ----------------------------- *)
onopen(id) ==
    /\ ~alertOpen
    /\ readyState[id] = "CONNECTING"
    /\ connectionStatus' = "connected"
    /\ readyState' = [readyState EXCEPT ![id] = "OPEN"]
    /\ sent' = [sent EXCEPT ![id] = @ \cup {"ready"}]
    /\ UNCHANGED <<alertOpen, parseFailed, images, loadingImages, nextTick,
                   polls, requested,
                   closeCode, closeTimers, statusFetch, server>>

\* event.data is "pong" or "server_ping": the raw "pong" sent back is no
\* control message and is not recorded in sent
onmessagePing(id) ==
    /\ ~alertOpen
    /\ readyState[id] = "OPEN"
    /\ UNCHANGED vars

\* mutant of onmessageImageUrl: the socket is closed at once, nothing is sent
onmessageImageUrlNoAck(id, u) ==
    /\ ~alertOpen
    /\ readyState[id] = "OPEN"
    /\ images' = Upsert(images, ImageUrl(id, u))
    /\ loadingImages' = DeleteKey(loadingImages, id)
    /\ nextTick' = RestartInterval
    /\ readyState' = [readyState EXCEPT ![id] = "CLOSING"]
    /\ closeCode' = [closeCode EXCEPT ![id] = NormalClosure]
    /\ UNCHANGED <<alertOpen, parseFailed, connectionStatus, polls, requested,
                   closeTimers, sent, statusFetch, server>>

\* data.image_url is set
onmessageImageUrl(id, u) ==
    /\ ~alertOpen
    /\ readyState[id] = "OPEN"
    /\ images' = Upsert(images, ImageUrl(id, u))
    /\ loadingImages' = DeleteKey(loadingImages, id)
    /\ nextTick' = RestartInterval
    /\ sent' = [sent EXCEPT ![id] = @ \cup {"received"}]
    /\ closeTimers' = [closeTimers EXCEPT ![id] = @ \cup {"image"}]
    /\ UNCHANGED <<alertOpen, parseFailed, connectionStatus, polls, requested,
                   readyState,
                   closeCode, statusFetch, server>>

\* data.status === "already_sent"
onmessageAlreadySent(id) ==
    /\ ~alertOpen
    /\ readyState[id] = "OPEN"
    /\ statusFetch' = [statusFetch EXCEPT ![id] = "pending"]
    /\ readyState' = [readyState EXCEPT ![id] = "CLOSING"]
    /\ UNCHANGED <<alertOpen, parseFailed, connectionStatus, images,
                   loadingImages, nextTick, polls, requested,
                   closeCode, closeTimers, sent, server>>

\* mutant of onmessageError: the loading entry is left in place
onmessageErrorKeepsLoading(id, m) ==
    /\ ~alertOpen
    /\ readyState[id] = "OPEN"
    /\ images' = Upsert(images, ImageError(id, OrElse(m, PushDefaultMessage)))
    /\ sent' = [sent EXCEPT ![id] = @ \cup {"error_received"}]
    /\ closeTimers' = [closeTimers EXCEPT ![id] = @ \cup {"error"}]
    /\ UNCHANGED <<alertOpen, parseFailed, connectionStatus, loadingImages,
                   nextTick, polls,
                   requested, readyState, closeCode, statusFetch, server>>

\* data.status === "error"
onmessageError(id, m) ==
    /\ ~alertOpen
    /\ readyState[id] = "OPEN"
    /\ images' = Upsert(images, ImageError(id, OrElse(m, PushDefaultMessage)))
    /\ loadingImages' = DeleteKey(loadingImages, id)
    /\ nextTick' = RestartInterval
    /\ sent' = [sent EXCEPT ![id] = @ \cup {"error_received"}]
    /\ closeTimers' = [closeTimers EXCEPT ![id] = @ \cup {"error"}]
    /\ UNCHANGED <<alertOpen, parseFailed, connectionStatus, polls, requested,
                   readyState,
                   closeCode, statusFetch, server>>

\* mutant of onmessageUndecodable: the catch block gives the socket up
onmessageUndecodableCloses(id) ==
    /\ ~alertOpen
    /\ readyState[id] = "OPEN"
    /\ parseFailed' = TRUE
    /\ readyState' = [readyState EXCEPT ![id] = "CLOSING"]
    /\ UNCHANGED <<alertOpen, connectionStatus, images, loadingImages, nextTick,
                   polls, requested, closeCode, closeTimers, sent, statusFetch,
                   server>>

\* event.data is no JSON text: JSON.parse throws and the catch block logs
onmessageUndecodable(id) ==
    /\ ~alertOpen
    /\ readyState[id] = "OPEN"
    /\ parseFailed' = TRUE
    /\ UNCHANGED <<alertOpen, connectionStatus, images, loadingImages, nextTick,
                   polls, requested, readyState, closeCode, closeTimers, sent,
                   statusFetch, server>>

\* the message is a JSON object that matches no branch
onmessageIgnored(id) ==
    /\ ~alertOpen
    /\ readyState[id] = "OPEN"
    /\ UNCHANGED vars

\* the setTimeout callbacks of the image and the error branch
closeTimer(id, kind) ==
    /\ ~alertOpen
    /\ kind \in closeTimers[id]
    /\ closeTimers' = [closeTimers EXCEPT ![id] = @ \ {kind}]
    /\ IF readyState[id] = "OPEN"
         THEN /\ readyState' = [readyState EXCEPT ![id] = "CLOSING"]
              /\ closeCode' = [closeCode EXCEPT ![id] =
                                 IF kind = "image" THEN NormalClosure ELSE @]
         ELSE UNCHANGED <<readyState, closeCode>>
    /\ UNCHANGED <<alertOpen, parseFailed, connectionStatus, images,
                   loadingImages, nextTick,
                   polls, requested, sent, statusFetch, server>>

\* the transport fails: the error event, with the close event to follow
onerror(id) ==
    /\ ~alertOpen
    /\ readyState[id] \in {"CONNECTING", "OPEN"}
    /\ connectionStatus' = "error"
    /\ readyState' = [readyState EXCEPT ![id] = "CLOSING"]
    /\ UNCHANGED <<alertOpen, parseFailed, images, loadingImages, nextTick,
                   polls, requested,
                   closeCode, closeTimers, sent, statusFetch, server>>

\* mutant of onclose: a new socket is created for the job
oncloseReconnects(id) ==
    /\ ~alertOpen
    /\ readyState[id] \in {"OPEN", "CLOSING"}
    /\ connectionStatus' = "disconnected"
    /\ readyState' = [readyState EXCEPT ![id] = "CONNECTING"]
    /\ UNCHANGED <<alertOpen, parseFailed, images, loadingImages, nextTick,
                   polls,
                   requested, closeCode, closeTimers, sent, statusFetch, server>>

\* the close event: the closing handshake ends, or the server closes
onclose(id) ==
    /\ ~alertOpen
    /\ readyState[id] \in {"OPEN", "CLOSING"}
    /\ connectionStatus' = "disconnected"
    /\ readyState' = [readyState EXCEPT ![id] = "CLOSED"]
    /\ UNCHANGED <<alertOpen, parseFailed, images, loadingImages, nextTick,
                   polls, requested,
                   closeCode, closeTimers, sent, statusFetch, server>>

\* mutant of statusResponse: the loading entry is left in place
statusResponseKeepsLoading(id, ans) ==
    /\ ~alertOpen
    /\ statusFetch[id] = "pending"
    /\ statusFetch' = [statusFetch EXCEPT ![id] =
                         IF StatusResolves(ans) THEN "applied" ELSE "none"]
    /\ IF StatusResolves(ans)
         THEN images' = Upsert(images, ImageUrl(id, ans.data.result))
         ELSE UNCHANGED images
    /\ UNCHANGED <<alertOpen, parseFailed, connectionStatus, loadingImages,
                   nextTick, polls, requested, readyState,
                   closeCode, closeTimers, sent, server>>

\* the fetch of the already_sent branch settles
statusResponse(id, ans) ==
    /\ ~alertOpen
    /\ statusFetch[id] = "pending"
    /\ statusFetch' = [statusFetch EXCEPT ![id] =
                         IF StatusResolves(ans) THEN "applied" ELSE "none"]
    /\ IF StatusResolves(ans)
         THEN /\ images' = Upsert(images, ImageUrl(id, ans.data.result))
              /\ loadingImages' = DeleteKey(loadingImages, id)
              /\ nextTick' = RestartInterval
         ELSE UNCHANGED <<images, loadingImages, nextTick>>
    /\ UNCHANGED <<alertOpen, parseFailed, connectionStatus, polls, requested,
                   readyState,
                   closeCode, closeTimers, sent, server>>

(* ----------------------------- the poller ----------------------------- *)
\* the interval fires: checkStaleRequests runs up to its first await
checkStaleRequests ==
    /\ ~alertOpen
    /\ now >= nextTick
    /\ Len(polls) < MaxRuns
    /\ nextTick' = now + PollInterval
    /\ LET staleRequestIds == StaleRequestIds(loadingImages, now) IN
         polls' = IF staleRequestIds = << >> THEN polls
                  ELSE Append(polls, staleRequestIds)
    /\ UNCHANGED <<alertOpen, parseFailed, connectionStatus, images,
                   loadingImages, requested,
                   readyState, closeCode, closeTimers, sent, statusFetch,
                   server>>

\* mutant of pollResponse: the try block encloses the loop, a rejected fetch
\* ends the run
pollResponseAborts(r, ans) ==
    /\ ~alertOpen
    /\ r \in 1..Len(polls)
    /\ LET reqId == Head(polls[r]) IN
         /\ images' = PollImages(images, reqId, ans)
         /\ IF PollResolves(ans)
              THEN /\ loadingImages' = DeleteKey(loadingImages, reqId)
                   /\ nextTick' = RestartInterval
              ELSE UNCHANGED <<loadingImages, nextTick>>
    /\ polls' = IF Len(polls[r]) = 1 \/ ~ans.reached
                  THEN SubSeq(polls, 1, r - 1) \o SubSeq(polls, r + 1, Len(polls))
                  ELSE [polls EXCEPT ![r] = Tail(@)]
    /\ UNCHANGED <<alertOpen, parseFailed, connectionStatus, requested,
                   readyState,
                   closeCode, closeTimers, sent, statusFetch, server>>

\* the awaited fetch of run r settles: one iteration of the loop, up to the
\* next await (or the end of the run)
pollResponse(r, ans) ==
    /\ ~alertOpen
    /\ r \in 1..Len(polls)
    /\ LET reqId == Head(polls[r]) IN
         /\ images' = PollImages(images, reqId, ans)
         /\ IF PollResolves(ans)
              THEN /\ loadingImages' = DeleteKey(loadingImages, reqId)
                   /\ nextTick' = RestartInterval
              ELSE UNCHANGED <<loadingImages, nextTick>>
    /\ polls' = IF Len(polls[r]) = 1
                  THEN SubSeq(polls, 1, r - 1) \o SubSeq(polls, r + 1, Len(polls))
                  ELSE [polls EXCEPT ![r] = Tail(@)]
    /\ UNCHANGED <<alertOpen, parseFailed, connectionStatus, requested,
                   readyState, closeCode,
                   closeTimers, sent, statusFetch, server>>

(* ------------------------------- time --------------------------------- *)
\* a poll interval passes.  A due tick and the close timers (500 ms, 200 ms)
\* fire first.  Every stored time moves back by the interval; only
\* differences of times are ever read, and an age beyond the threshold stays
\* beyond it, so older timestamps are not told apart.
advanceTime ==
    /\ ~alertOpen
    /\ now < nextTick
    /\ \A id \in JobIds : closeTimers[id] = {}
    /\ nextTick' = nextTick - PollInterval
    /\ loadingImages' =
         [k \in DOMAIN loadingImages |->
            Max(loadingImages[k] - PollInterval,
                now - (StaleThreshold + PollInterval))]
    /\ UNCHANGED <<alertOpen, parseFailed, connectionStatus, images, polls,
                   requested, readyState,
                   closeCode, closeTimers, sent, statusFetch, server>>

(* ------------------------------- Next --------------------------------- *)
\* any well-formed push message and any answer of the status endpoint may
\* arrive; the server's records play no part
Next ==
    \/ requestImageGeneration
    \/ requestImageGenerationFails
    \/ alertDismissed
    \/ \E id \in JobIds : onopen(id)
    \/ \E id \in JobIds : onmessagePing(id)
    \/ \E id \in JobIds, u \in Urls : onmessageImageUrl(id, u)
    \/ \E id \in JobIds : onmessageAlreadySent(id)
    \/ \E id \in JobIds, m \in Msgs : onmessageError(id, m)
    \/ \E id \in JobIds : onmessageUndecodable(id)
    \/ \E id \in JobIds : onmessageIgnored(id)
    \/ \E id \in JobIds, kind \in {"image", "error"} : closeTimer(id, kind)
    \/ \E id \in JobIds : onerror(id)
    \/ \E id \in JobIds : onclose(id)
    \/ \E id \in JobIds, ans \in StatusAnswers : statusResponse(id, ans)
    \/ checkStaleRequests
    \/ \E r \in 1..MaxRuns, ans \in StatusAnswers : pollResponse(r, ans)
    \/ advanceTime

Spec == Init /\ [][Next]_vars

TypeOK ==
    /\ nextTick \in {now, now + PollInterval}
    /\ requested \in 0..MaxJobs
    /\ DOMAIN loadingImages \subseteq 1..requested
    /\ \A i \in 1..Len(images) : images[i].id \in 1..requested
    /\ alertOpen \in BOOLEAN
    /\ parseFailed \in BOOLEAN


(* ------------- a server that reports what it has recorded ------------- *)
\* the server accepts every submission, sends JSON only, records one result
\* per job and both channels report it: the push messages are the image of
\* a completed job, the error of a failed one and already_sent once there
\* is a result; the status endpoint answers with the record
RecordedUrls(id) == {u \in Urls : server[id] = Completed(u)}
RecordedMsgs(id) == {m \in Msgs : server[id] = Errored(m)}

NextRecorded ==
    \/ requestImageGeneration
    \/ \E id \in JobIds, res \in ServerResults : serverFinish(id, res)
    \/ \E id \in JobIds : onopen(id)
    \/ \E id \in JobIds : onmessagePing(id)
    \/ \E id \in JobIds : \E u \in RecordedUrls(id) : onmessageImageUrl(id, u)
    \/ \E id \in JobIds : server[id] # Processing /\ onmessageAlreadySent(id)
    \/ \E id \in JobIds : \E m \in RecordedMsgs(id) : onmessageError(id, m)
    \/ \E id \in JobIds : onmessageIgnored(id)
    \/ \E id \in JobIds, kind \in {"image", "error"} : closeTimer(id, kind)
    \/ \E id \in JobIds : onerror(id)
    \/ \E id \in JobIds : onclose(id)
    \/ \E id \in JobIds : \E ans \in RecordedAnswers(id) : statusResponse(id, ans)
    \/ checkStaleRequests
    \/ \E r \in 1..MaxRuns : r <= Len(polls) /\
         \E ans \in RecordedAnswers(Head(polls[r])) : pollResponse(r, ans)
    \/ advanceTime

\* the status endpoint answers a poll for id with the job's record
pollRecord(id) ==
    \E r \in 1..MaxRuns :
        /\ r <= Len(polls)
        /\ Head(polls[r]) = id
        /\ pollResponse(r, Answer(TRUE, server[id]))

\* timers fire and pending fetches settle; a job polled again and again is
\* answered with its record again and again
Fairness ==
    /\ WF_vars(advanceTime)
    /\ WF_vars(checkStaleRequests)
    /\ \A id \in JobIds : WF_vars(closeTimer(id, "image"))
    /\ \A id \in JobIds : WF_vars(closeTimer(id, "error"))
    /\ \A id \in JobIds : WF_vars(onclose(id))
    /\ WF_vars(\E r \in 1..MaxRuns : r <= Len(polls) /\
                 \E ans \in RecordedAnswers(Head(polls[r])) : pollResponse(r, ans))
    /\ \A id \in JobIds : SF_vars(pollRecord(id))

FairSpec == Init /\ [][NextRecorded]_vars /\ Fairness


(* ======================== properties of the store ===================== *)
Range(seq) == {seq[i] : i \in 1..Len(seq)}
Acks == {"received", "error_received"}
Age(id) == now - loadingImages[id]

\* C1: in every reachable state the result list holds at most one entry
\* per job id, whatever push messages and poll answers were applied.
C1_AtMostOneEntry ==
    \A id \in JobIds : Cardinality(EntriesOf(id)) <= 1

\* both a pushed image and a pushed error were applied for one job
C1_Witness ==
    \E id \in JobIds : Acks \subseteq sent[id] /\ Cardinality(EntriesOf(id)) = 1

\* C2: first writer wins: once a job has a result entry, no later step
\* changes that entry.
C2_FirstWriterWins ==
    [][\A id \in JobIds :
          HasResult(id) => (HasResult(id)' /\ ResultOf(id)' = ResultOf(id))]_vars

\* the entry a server record stands for
Matches(e, rec) ==
    IF rec.status = "completed"
      THEN ~e.error /\ e.url = rec.result
      ELSE /\ e.error
           /\ IF rec.error = ""
                THEN e.message \in {PollDefaultMessage, PushDefaultMessage}
                ELSE e.message = rec.error

Settled(id) ==
    /\ ~IsLoading(id)
    /\ Cardinality(EntriesOf(id)) = 1
    /\ Matches(ResultOf(id), server[id])

\* C3: no loss: a submitted job whose one result the server has recorded is
\* eventually entered in the result list with that result and is no longer
\* loading, also when its socket fails or closes without delivering.
C3_NoLoss ==
    \A id \in JobIds : (id <= requested /\ server[id] # Processing) ~> Settled(id)

\* a job was settled although its socket closed without a result message
C3_Witness ==
    \E id \in JobIds :
        /\ readyState[id] = "CLOSED"
        /\ sent[id] \cap Acks = {}
        /\ statusFetch[id] = "none"
        /\ server[id] # Processing
        /\ Settled(id)

\* C4: race of a pushed image and a poll answer "processing" for one job:
\* the image handler leaves exactly one entry, the image, and no loading
\* entry; the "processing" answer changes nothing, so either order ends there.
C4_RaceSafety ==
    [][\A id \in JobIds :
         /\ \A u \in Urls :
              onmessageImageUrl(id, u) =>
                /\ Cardinality(EntriesOf(id)') = 1
                /\ ResultOf(id)' = ImageUrl(id, u)
                /\ ~IsLoading(id)'
         /\ \A r \in 1..MaxRuns :
              (r <= Len(polls) /\ Head(polls[r]) = id
                 /\ pollResponse(r, Answer(TRUE, Processing))) =>
                UNCHANGED <<images, loadingImages>>]_vars

\* the image was pushed while the poll query for the same job is unanswered
C4_Witness ==
    \E id \in JobIds :
        /\ polls # << >>
        /\ Head(polls[1]) = id
        /\ "received" \in sent[id]
        /\ HasResult(id)
        /\ ~ResultOf(id).error
        /\ ~IsLoading(id)

\* C5: a tick never selects a job whose age at the tick does not exceed the
\* staleness threshold.
C5_YoungNeverSelected ==
    [][(checkStaleRequests /\ polls' # polls) =>
         \A id \in Range(polls'[Len(polls')]) :
             IsLoading(id) /\ Age(id) > StaleThreshold]_vars

\* the tick has just fired (no state change since), it selected job 1 and
\* passed over job 2, whose age is exactly the threshold
C5_Witness ==
    /\ polls = << <<1>> >>
    /\ nextTick = now + PollInterval
    /\ IsLoading(1)
    /\ IsLoading(2)
    /\ Age(2) = StaleThreshold

\* C6: a tick that fires selects every job that is loading for longer than
\* the threshold, and queries the first of them at once; this holds at
\* every tick, so a job is selected again as long as it stays loading.
C6_StaleAlwaysSelected ==
    [][checkStaleRequests =>
         LET stale == {id \in DOMAIN loadingImages : Age(id) > StaleThreshold} IN
           stale # {} =>
             /\ Len(polls') = Len(polls) + 1
             /\ Range(polls'[Len(polls')]) = stale]_vars

\* one tick selected both jobs
C6_Witness ==
    /\ polls = << <<1, 2>> >>
    /\ IsLoading(1)
    /\ IsLoading(2)

\* C7: already_sent handoff: once the status fetch of the already_sent
\* branch was answered completed with a result, the job has exactly one
\* entry, an image, and no loading entry, whatever the poller does.
C7_Handoff ==
    \A id \in JobIds :
        statusFetch[id] = "applied" =>
            /\ Cardinality(EntriesOf(id)) = 1
            /\ ~ResultOf(id).error
            /\ ResultOf(id).url = server[id].result
            /\ ~IsLoading(id)

\* the handoff applied its answer while the poller was querying the same job
C7_Witness ==
    \E id \in JobIds :
        /\ statusFetch[id] = "applied"
        /\ polls # << >>
        /\ id \in Range(polls[1])

C9_ErrorCarriesMessage ==
    [][\A r \in 1..MaxRuns : \A id \in JobIds : \A m \in Msgs :
         (r <= Len(polls) /\ Head(polls[r]) = id
            /\ pollResponse(r, Answer(TRUE, Errored(m)))) =>
            ResultOf(id)' = ImageError(id, m)]_vars

\* C9 amended: an answer {status: "error", error: m} to a poll leaves
\* exactly one entry for the job, the Failure carrying m, or "Error
\* generating image" when m is empty, and no loading entry; an answer
\* completed with a URL u leaves the image with u and no loading entry.
C9_PollApplies ==
    [][\A r \in 1..MaxRuns : \A id \in JobIds :
         (r <= Len(polls) /\ Head(polls[r]) = id) =>
             /\ \A m \in Msgs :
                  pollResponse(r, Answer(TRUE, Errored(m))) =>
                    /\ Cardinality(EntriesOf(id)') = 1
                    /\ ResultOf(id)' =
                         ImageError(id, IF m = "" THEN "Error generating image" ELSE m)
                    /\ ~IsLoading(id)'
             /\ \A u \in Urls :
                  pollResponse(r, Answer(TRUE, Completed(u))) =>
                    /\ Cardinality(EntriesOf(id)') = 1
                    /\ ResultOf(id)' = ImageUrl(id, u)
                    /\ ~IsLoading(id)']_vars

\* a poll entered the server's error message: no error was pushed
C9_Witness ==
    \E id \in JobIds :
        /\ "error_received" \notin sent[id]
        /\ HasResult(id)
        /\ ResultOf(id) = ImageError(id, "OOM")
        /\ ~IsLoading(id)

\* C10: every submitted job is either loading or has a result entry, never
\* both and never neither; a job not yet submitted has neither.
C10_LoadingXorResult ==
    \A id \in JobIds :
        IF id <= requested
          THEN IsLoading(id) # HasResult(id)
          ELSE ~IsLoading(id) /\ ~HasResult(id)

\* one job has its result while the other is still loading
C10_Witness ==
    \E id, other \in JobIds :
        /\ HasResult(id)
        /\ ~IsLoading(id)
        /\ IsLoading(other)
        /\ ~HasResult(other)

(* ===================== submission, sockets, poller ==================== *)
\* the sockets that have been created
Sessions == {id \in JobIds : readyState[id] # "none"}

\* C11: a submission that fails (the step that raises the alert) creates no
\* loading entry, no result entry, no request id and no socket: the store
\* and the sockets are as before.
C11_FailedSubmissionNoJob ==
    [][(~alertOpen /\ alertOpen') =>
         /\ UNCHANGED <<images, loadingImages, requested, readyState>>
         /\ Sessions' = Sessions]_vars

\* a submission failed after an earlier one was accepted: one job is
\* loading, one socket exists, and a request id is still free
C11_Witness ==
    /\ alertOpen
    /\ requested = 1
    /\ IsLoading(1)
    /\ Sessions = {1}

\* C12: the poller's cadence does not depend on store activity: the time of
\* the next tick is moved later only by the tick itself, never by a
\* submission or a resolution, so that a due tick stays due until it fires.
C12_TickNeverPostponed ==
    [][nextTick' > nextTick => checkStaleRequests]_vars

\* C13: on already_sent the handler itself changes neither the result list
\* nor the loading entries, starts the one status fetch and closes the
\* socket; the answer of that fetch is applied: completed with a URL enters
\* the image, error enters a Failure, and both remove the loading entry.
C13_AlreadySentApplies ==
    [][\A id \in JobIds :
         /\ onmessageAlreadySent(id) =>
              /\ UNCHANGED <<images, loadingImages>>
              /\ statusFetch[id]' = "pending"
              /\ readyState[id]' \in {"CLOSING", "CLOSED"}
         /\ \A u \in Urls :
              statusResponse(id, Answer(TRUE, Completed(u))) =>
                /\ HasResult(id)'
                /\ ResultOf(id)' = ImageUrl(id, u)
                /\ ~IsLoading(id)'
         /\ \A m \in Msgs :
              (IsLoading(id) /\ statusResponse(id, Answer(TRUE, Errored(m)))) =>
                /\ HasResult(id)'
                /\ ResultOf(id)'.error
                /\ ~IsLoading(id)']_vars

C15_UndecodableIgnored ==
    /\ [][\A id \in JobIds :
            onmessageUndecodable(id) =>
                UNCHANGED <<images, loadingImages, readyState, closeCode,
                            closeTimers, sent, statusFetch, polls, nextTick,
                            connectionStatus>>]_vars
    /\ [](\A id \in JobIds :
            (parseFailed /\ readyState[id] = "OPEN" /\ ~alertOpen) =>
                /\ \A u \in Urls : ENABLED onmessageImageUrl(id, u)
                /\ \A m \in Msgs : ENABLED onmessageError(id, m)
                /\ ENABLED onmessageAlreadySent(id))
    /\ [][\A id \in JobIds :
            parseFailed =>
                /\ \A u \in Urls :
                     onmessageImageUrl(id, u) =>
                        /\ ResultOf(id)' = ImageUrl(id, u)
                        /\ ~IsLoading(id)'
                        /\ "received" \in sent[id]'
                /\ \A m \in Msgs :
                     onmessageError(id, m) =>
                        /\ ResultOf(id)' = ImageError(id, OrElse(m, PushDefaultMessage))
                        /\ ~IsLoading(id)'
                        /\ "error_received" \in sent[id]'
                /\ onmessageAlreadySent(id) => statusFetch[id]' = "pending"]_vars

\* the only socket received an undecodable message and then an image
C15_Witness ==
    /\ parseFailed
    /\ requested = 1
    /\ readyState[1] = "OPEN"
    /\ sent[1] = {"ready", "received"}
    /\ HasResult(1)
    /\ ~IsLoading(1)

\* C16: a socket is created for a job only once, by its submission: a job
\* that has a socket never gets a new one, and a socket that is closing or
\* closed stays so; the error and the close event leave the result list,
\* the loading entries and the poller alone.
C16_OnePushAttempt ==
    /\ [][\A id \in JobIds :
            /\ (readyState[id]' = "CONNECTING" /\ readyState[id] # "CONNECTING") =>
                  (readyState[id] = "none" /\ requested' = id)
            /\ readyState[id] \in {"CLOSING", "CLOSED"} =>
                  readyState[id]' \in {"CLOSING", "CLOSED"}
            /\ (onerror(id) \/ onclose(id)) =>
                  UNCHANGED <<images, loadingImages, polls, nextTick, statusFetch>>]_vars
    /\ [](\A id \in JobIds : id \in Sessions <=> id <= requested)

\* the socket of a job failed before it opened and is closed; the job is
\* still loading
C16_Witness ==
    \E id \in JobIds :
        /\ readyState[id] = "CLOSED"
        /\ sent[id] = {}
        /\ IsLoading(id)
        /\ ~HasResult(id)

\* the answers the polling loop takes no action on: processing, a status it
\* does not know, a non-OK response, a rejected fetch
NoActionAnswers ==
    {Answer(TRUE, Processing)} \cup {Answer(TRUE, d) : d \in Unrecognised}
      \cup Failed \cup NotOk

\* C17: a poll answered processing, with an unknown status, not OK or not at
\* all leaves the result list and the loading entries, start times
\* included, as they were.
C17_NoActionAnswers ==
    [][\A r \in 1..MaxRuns : \A ans \in NoActionAnswers :
         pollResponse(r, ans) => UNCHANGED <<images, loadingImages>>]_vars

\* one tick selected both jobs and the query of job 1 has been answered:
\* job 1 is still loading, as old as before, and has no entry
C17_Witness ==
    /\ polls = << <<2>> >>
    /\ IsLoading(1)
    /\ Age(1) > StaleThreshold
    /\ ~HasResult(1)
    /\ IsLoading(2)

\* C18: when the query of a job fails (rejected fetch or non-OK response)
\* and the tick selected further jobs, the run goes on: the next selected
\* job is queried, and its answer is applied as that of any poll.
C18_FailureDoesNotBlock ==
    [][\A r \in 1..MaxRuns :
         /\ \A ans \in Failed \cup NotOk :
              (r <= Len(polls) /\ Len(polls[r]) > 1 /\ pollResponse(r, ans)) =>
                 /\ Len(polls') = Len(polls)
                 /\ polls'[r] = Tail(polls[r])
         /\ \A id \in JobIds : \A res \in ServerResults :
              (r <= Len(polls) /\ polls[r] = <<id>>
                 /\ pollResponse(r, Answer(TRUE, res))) =>
                 /\ HasResult(id)'
                 /\ ResultOf(id)'.error = (res.status = "error")
                 /\ ~IsLoading(id)']_vars

\* job 2 was entered by the poller (its socket delivered nothing) while
\* job 1, queried before it in every tick, is still loading
C18_Witness ==
    /\ IsLoading(1)
    /\ Age(1) > StaleThreshold
    /\ HasResult(2)
    /\ ~IsLoading(2)
    /\ sent[2] \cap Acks = {}
    /\ statusFetch[2] = "none"
    /\ polls = << >>

\* C19: a socket applies one result at most: once its handler has entered
\* an image or an error (the acknowledgment is sent in the same step), a
\* further image or error message on that socket, during the delay before
\* it closes included, leaves the result list and the loading entries as
\* they are.
C19_OneResultPerSession ==
    [][\A id \in JobIds :
         sent[id] \cap Acks # {} =>
            /\ \A u \in Urls :
                 onmessageImageUrl(id, u) => UNCHANGED <<images, loadingImages>>
            /\ \A m \in Msgs :
                 onmessageError(id, m) => UNCHANGED <<images, loadingImages>>]_vars

\* C20: whenever the poller issues a status query, at the start of a tick
\* for the first selected job or after an answer for the next one, the job
\* queried has a loading entry at that moment.
C20_QueriesLoadingOnly ==
    [][/\ (checkStaleRequests /\ polls' # polls) =>
            \A id \in JobIds :
                Head(polls'[Len(polls')]) = id => IsLoading(id)'
       /\ \A r \in 1..MaxRuns : \A id \in JobIds :
            (r <= Len(polls) /\ Len(polls[r]) > 1 /\ polls[r][2] = id
               /\ \E ans \in StatusAnswers : pollResponse(r, ans)) =>
                IsLoading(id)']_vars

====
